---- MODULE Spec2Model ----
(***************************************************************************)
(* TLCAttendance.py: configuration resolution, roster loading, login and   *)
(* the attendance-marking loop, as one sequential state machine (main).    *)
(***************************************************************************)
EXTENDS Integers, Sequences, FiniteSets, TLC

VARIABLES
    pc,                 \* position of main / of the method it is running
    exc,                \* the exception that ended the run, "None" if none
    console,            \* the ERROR: lines printed so far
    origFile,           \* the config file as it was when the run started
    configFile,         \* the config file on disk
    fileWrites,         \* how many times the config file has been written
    config,             \* self.config, the in-memory ConfigParser
    configChanged,      \* self.configChanged
    itemIdx,            \* which readConfigItem call of readConfig is next
    prompted,           \* the keys input() was called for
    typed,              \* what the operator answered, per prompted key
    settings,           \* the attributes set by setattr(self, fieldName, ..)
    urls,               \* BASE_URL, DASHBOARD_URL, LOGIN_URL
    workBook,           \* the workbook as load_workbook last read it
    loads,              \* how many times loadAttendanceData has run
    attendees,          \* self.attendees
    count,              \* main's local `count`
    driver,             \* self.driver: "None" or the session's browserName
    sessions,           \* how many browser sessions have been created
    currentUrl,         \* driver.current_url
    response,           \* what the portal did after the login click
    loginComplete,      \* login's local loginComplete
    attempts,           \* how many times the body of login's while loop ran
    loginResult,        \* what login() returned: "None" (not yet), "True", "False"
    pageAtLoad,         \* the attendance page as it was when it loaded
    page,               \* the attendance page's DOM, as the driver sees it
    selectedEventValue, \* recordAttendance's local selectedEventValue
    idx,                \* position of the for loop over self.attendees
    inspected,          \* per loop iteration: the value get_attribute reported
    portal              \* every interaction sent to the browser, in order

vars == <<pc, exc, console, origFile, configFile, fileWrites, config,
          configChanged, itemIdx, prompted, typed, settings, urls, workBook,
          loads, attendees, count, driver, sessions, currentUrl, response,
          loginComplete, attempts, loginResult, pageAtLoad, page,
          selectedEventValue, idx, inspected, portal>>

configVars == <<origFile, configFile, fileWrites, config, configChanged,
                itemIdx, prompted, typed, settings, urls>>
rosterVars == <<workBook, loads, attendees, count>>
loginVars  == <<driver, sessions, currentUrl, response, loginComplete,
                attempts, loginResult>>
recordVars == <<pageAtLoad, page, selectedEventValue, idx, inspected>>

----------------------------------------------------------------------------
(* Bounds *)

MaxRows == 2        \* longest column A of a sheet
MaxAttempts == 3    \* cap on the counter of login-loop passes

----------------------------------------------------------------------------
(* configparser, as readConfigItem uses it *)

Absent == "<absent>"
Unset == "<unset>"
DEFAULTSECT == "DEFAULT"

KeyOrder == <<"server", "browser", "sheetName", "email", "initial_wait_secs">>
Keys == {KeyOrder[i] : i \in 1..Len(KeyOrder)}
DefaultKeys == {"server", "browser", "sheetName"}

Servers == {"www.traillifeconnect.com", "tlc.example.org"}

DefaultValue(k) ==
    CASE k = "server" -> "www.traillifeconnect.com"
      [] k = "browser" -> "Firefox"
      [] k = "sheetName" -> "Attendance"
      [] k = "email" -> "user@example.com"
      [] k = "initial_wait_secs" -> "30"

\* What the operator may type at a prompt ("" is a bare Enter).
Answers(k) ==
    CASE k = "server" -> {"", "tlc.example.org"}
      [] k = "browser" -> {"", "Chrome"}
      [] k = "sheetName" -> {"", "Scans"}
      [] k = "email" -> {"", "leader@troop.org"}
      [] k = "initial_wait_secs" -> {"", "10"}

NoOptions == [k \in Keys |-> Absent]
EmptyConfig == [defaults |-> NoOptions,
                sections |-> {},
                opts |-> [s \in Servers |-> NoOptions]]

HasSection(cfg, section) ==
    section = DEFAULTSECT \/ section \in cfg.sections

AddSection(cfg, section) ==
    [cfg EXCEPT !.sections = @ \cup {section}, !.opts[section] = NoOptions]

\* `fieldName in self.config[section]`: a section's options include DEFAULT's.
HasOption(cfg, section, k) ==
    IF section = DEFAULTSECT
    THEN cfg.defaults[k] # Absent
    ELSE /\ section \in cfg.sections
         /\ (cfg.opts[section][k] # Absent \/ cfg.defaults[k] # Absent)

GetOption(cfg, section, k) ==
    IF section = DEFAULTSECT
    THEN cfg.defaults[k]
    ELSE IF cfg.opts[section][k] # Absent
         THEN cfg.opts[section][k]
         ELSE cfg.defaults[k]

SetOption(cfg, section, k, v) ==
    IF section = DEFAULTSECT
    THEN [cfg EXCEPT !.defaults[k] = v]
    ELSE [cfg EXCEPT !.opts[section][k] = v]

----------------------------------------------------------------------------
(* readConfigItem / readConfig / setURLs *)

SectionOf(k, st) == IF k \in DefaultKeys THEN DEFAULTSECT ELSE st["server"]

NeedsPrompt(cfg, section, k) == ~HasOption(cfg, section, k)

\* Variant: the default fallback of lines 60-61 is left out.
ResolveValueNoDefault(answer, defaultValue) == answer

ResolveValue(answer, defaultValue) ==
    IF answer = "" THEN defaultValue ELSE answer

\* Variant: the file is written whether or not anything changed.
ShouldWriteAlways(changed) == TRUE

ShouldWrite(changed) == changed

NoURLs == [base |-> <<>>, dashboard |-> <<>>, login |-> <<>>]

setURLs(server) ==
    LET base == <<"https://", server, "/">>
    IN [base |-> base,
        dashboard |-> base \o <<"dashboard">>,
        login |-> base \o <<"login">>]

ReadConfigStart ==
    /\ pc = "readConfig"
    /\ configChanged' = FALSE
    /\ config' = configFile
    /\ itemIdx' = 1
    /\ pc' = "readConfigItem"
    /\ UNCHANGED <<exc, console, origFile, configFile, fileWrites, prompted,
                   typed, settings, urls, rosterVars, loginVars, recordVars,
                   portal>>

\* One readConfigItem call; the call for `server` is followed by setURLs().
readConfigItem(k, answer) ==
    LET section == SectionOf(k, settings)
        cfg1 == IF HasSection(config, section) THEN config
                ELSE AddSection(config, section)
        missing == NeedsPrompt(cfg1, section, k)
        value == ResolveValue(answer, DefaultValue(k))
        cfg2 == IF missing THEN SetOption(cfg1, section, k, value) ELSE cfg1
    IN /\ config' = cfg2
       /\ configChanged' = (configChanged \/ missing)
       /\ prompted' = IF missing THEN prompted \cup {k} ELSE prompted
       /\ typed' = IF missing THEN [typed EXCEPT ![k] = answer] ELSE typed
       /\ settings' = [settings EXCEPT ![k] = GetOption(cfg2, section, k)]
       /\ urls' = IF k = "server"
                  THEN setURLs(GetOption(cfg2, section, k))
                  ELSE urls

ReadConfigItem ==
    /\ pc = "readConfigItem"
    /\ itemIdx <= Len(KeyOrder)
    /\ LET k == KeyOrder[itemIdx]
           section == SectionOf(k, settings)
           cfg1 == IF HasSection(config, section) THEN config
                   ELSE AddSection(config, section)
       IN IF NeedsPrompt(cfg1, section, k)
          THEN \E answer \in Answers(k) : readConfigItem(k, answer)
          ELSE readConfigItem(k, "")
    /\ itemIdx' = itemIdx + 1
    /\ UNCHANGED <<pc, exc, console, origFile, configFile, fileWrites,
                   rosterVars, loginVars, recordVars, portal>>

ReadConfigWrite ==
    /\ pc = "readConfigItem"
    /\ itemIdx > Len(KeyOrder)
    /\ IF ShouldWrite(configChanged)
       THEN /\ configFile' = config
            /\ fileWrites' = fileWrites + 1
       ELSE UNCHANGED <<configFile, fileWrites>>
    /\ pc' = "load1"
    /\ UNCHANGED <<exc, console, origFile, config, configChanged, itemIdx,
                   prompted, typed, settings, urls, rosterVars, loginVars,
                   recordVars, portal>>

----------------------------------------------------------------------------
(* loadAttendanceData *)

SheetNames == {"Attendance", "Scans"}
AttendeeIds == {"A1", "A2"}

ColumnsA == UNION {[1..n -> AttendeeIds] : n \in 1..MaxRows}

\* A workbook: whether the file opens, its sheet names, column A of each sheet.
\* openpyxl yields at least cell A1 for every sheet that exists.
WorkBooks ==
    {[readable |-> FALSE, names |-> {},
      colA |-> [n \in SheetNames |-> <<>>]]}
    \cup
    {[readable |-> TRUE, names |-> ns,
      colA |-> [n \in SheetNames |->
                  IF n \notin ns THEN <<>>
                  ELSE IF n = "Attendance" THEN col ELSE <<"B7">>]] :
        ns \in SUBSET SheetNames, col \in ColumnsA}

NoWorkBook == [readable |-> FALSE, names |-> {},
               colA |-> [n \in SheetNames |-> <<>>]]

SheetFound(wb, sheetName) == sheetName \in wb.names

\* Variant: a missing sheet falls back to whichever sheet the workbook has.
ReadColumnActive(wb, sheetName) ==
    IF SheetFound(wb, sheetName) THEN wb.colA[sheetName]
    ELSE IF wb.names # {} THEN wb.colA[CHOOSE n \in wb.names : TRUE]
    ELSE <<>>

ReadColumn(wb, sheetName) ==
    IF SheetFound(wb, sheetName) THEN wb.colA[sheetName] ELSE <<>>

LoadAttendanceData ==
    /\ pc \in {"load1", "load2"}
    /\ \E wb \in WorkBooks :
         /\ workBook' = wb
         /\ loads' = loads + 1
         /\ IF ~wb.readable
            THEN /\ attendees' = <<>>
                 /\ exc' = "InvalidFileException"
                 /\ pc' = "crashed"
                 /\ UNCHANGED <<console, count>>
            ELSE /\ attendees' = ReadColumn(wb, settings["sheetName"])
                 /\ console' = IF SheetFound(wb, settings["sheetName"])
                               THEN console
                               ELSE Append(console, "SheetNotFound")
                 /\ count' = IF pc = "load1" THEN Len(attendees') ELSE count
                 /\ pc' = IF pc = "load1" THEN "check_count" ELSE "record"
                 /\ exc' = exc
    /\ UNCHANGED <<configVars, loginVars, recordVars, portal>>

----------------------------------------------------------------------------
(* main *)

\* Variants: the emptiness test never fires; it is off by one.
CountIsNegative(c) == c < 0
CountAtMostOne(c) == c <= 1

CountIsZero(c) == c = 0

MainCheckCount ==
    /\ pc = "check_count"
    /\ IF CountIsZero(count)
       THEN /\ console' = Append(console, "NoData")
            /\ pc' = "aborted"
       ELSE /\ pc' = "login"
            /\ UNCHANGED console
    /\ UNCHANGED <<exc, configVars, rosterVars, loginVars, recordVars, portal>>

\* Variant: main goes on whatever login() returned.
ProceedsRegardless(result) == TRUE

Proceeds(result) == result = "True"

MainAfterLogin ==
    /\ pc = "main_if"
    /\ pc' = IF Proceeds(loginResult) THEN "load2" ELSE "done"
    /\ UNCHANGED <<exc, console, configVars, rosterVars, loginVars,
                   recordVars, portal>>

----------------------------------------------------------------------------
(* getDriver / login / logout *)

getDriver(browser) ==
    CASE browser = "Firefox" -> "firefox"
      [] browser = "Chrome" -> "chrome"
      [] browser = "Edge" -> "MicrosoftEdge"
      [] OTHER -> "firefox"

Did(op, target, i) == [op |-> op, target |-> target, i |-> i]

\* What the portal does after the login button is clicked: whether the
\* help-block-error element becomes visible, and the URL the browser is on.
Responses ==
    {[error |-> e, url |-> u] :
        e \in BOOLEAN,
        u \in {setURLs(s).dashboard : s \in Servers} \cup {urls.login}}

NoResponse == [error |-> FALSE, url |-> <<>>]

\* waitLogin.until(any_of(error visible, url_to_be(DASHBOARD_URL)))
WaitSatisfied(resp, dashboard) == resp.error \/ resp.url = dashboard

OnDashboard(url, dashboard) == url = dashboard

\* Variant: a failed attempt goes round the while loop again.
FailedAttemptRetry(message) ==
    /\ console' = Append(console, message)
    /\ pc' = "login_while"
    /\ UNCHANGED <<loginResult, loginComplete>>

\* print(f'ERROR: ...'); return False
FailedAttempt(message) ==
    /\ console' = Append(console, message)
    /\ loginResult' = "False"
    /\ pc' = "main_if"
    /\ UNCHANGED loginComplete

LoginStart ==
    /\ pc = "login"
    /\ driver' = getDriver(settings["browser"])
    /\ sessions' = sessions + 1
    /\ portal' = Append(portal, Did("session", <<driver'>>, 0))
    /\ pc' = "login_open"
    /\ UNCHANGED <<exc, console, configVars, rosterVars, currentUrl,
                   response, loginComplete, attempts, loginResult, recordVars>>

LoginOpen ==
    /\ pc = "login_open"
    /\ currentUrl' = urls.base
    /\ portal' = Append(portal, Did("get", urls.base, 0))
    /\ \E clickable \in BOOLEAN :
         IF clickable
         THEN /\ loginComplete' = FALSE
              /\ pc' = "login_while"
              /\ exc' = exc
         ELSE /\ exc' = "TimeoutException"
              /\ pc' = "crashed"
              /\ UNCHANGED loginComplete
    /\ UNCHANGED <<console, configVars, rosterVars, driver, sessions,
                   response, attempts, loginResult, recordVars>>

LoginWhile ==
    /\ pc = "login_while"
    /\ IF ~loginComplete
       THEN /\ pc' = "login_body"
            /\ UNCHANGED loginResult
       ELSE /\ loginResult' = "True"
            /\ pc' = "main_if"
    /\ UNCHANGED <<exc, console, configVars, rosterVars, driver, sessions,
                   currentUrl, response, loginComplete, attempts, recordVars,
                   portal>>

LoginBody ==
    /\ pc = "login_body"
    /\ attempts < MaxAttempts
    /\ attempts' = attempts + 1
    /\ portal' = portal \o <<Did("send_password", <<"loginform-password">>, 0),
                             Did("click_login", <<"login-button">>, 0)>>
    /\ \E resp \in Responses :
         /\ response' = resp
         /\ currentUrl' = resp.url
         /\ IF ~WaitSatisfied(resp, urls.dashboard)
            THEN FailedAttempt("LoginFailed")
            ELSE IF OnDashboard(resp.url, urls.dashboard)
                 THEN /\ loginComplete' = TRUE
                      /\ pc' = "login_while"
                      /\ UNCHANGED <<console, loginResult>>
                 ELSE FailedAttempt("DashboardFailed")
    /\ UNCHANGED <<exc, configVars, rosterVars, driver, sessions, recordVars>>

Logout ==
    /\ pc = "logout"
    /\ currentUrl' = <<"https://", settings["server"], "/", "logout">>
    /\ portal' = portal \o <<Did("get", currentUrl', 0), Did("close", <<>>, 0)>>
    /\ pc' = "done"
    /\ UNCHANGED <<exc, console, configVars, rosterVars, driver, sessions,
                   response, loginComplete, attempts, loginResult, recordVars>>

----------------------------------------------------------------------------
(* recordAttendance *)

EventValue == "7"

\* f'{attendee}-{selectedEventValue}-{endStr}'
CboxId(attendee, eventValue) == <<attendee, "-", eventValue, "-", "attended">>

PageCboxIds == {CboxId(a, EventValue) : a \in AttendeeIds}

\* The attendance page: whether the event selector is there, the value of the
\* use-lesson-plans input and of each attendee checkbox ("missing": no element).
Pages ==
    {[eventSelect |-> FALSE, eventValue |-> "", lessonPlan |-> "missing",
      cbox |-> [id \in PageCboxIds |-> "missing"]]}
    \cup
    {[eventSelect |-> TRUE, eventValue |-> EventValue, lessonPlan |-> lp,
      cbox |-> cb] :
        lp \in {"missing", "0", "1"},
        cb \in [PageCboxIds -> {"missing", "0", "1"}]}

NoPage == [eventSelect |-> FALSE, eventValue |-> "", lessonPlan |-> "missing",
           cbox |-> [id \in PageCboxIds |-> "missing"]]

\* driver.find_element(By.XPATH, "//input[@id = '...']") then get_attribute
CboxValue(pg, id) ==
    IF id \in DOMAIN pg.cbox THEN pg.cbox[id] ELSE "missing"

\* Variant: a missing element is skipped instead of raising.
NotFoundNever(value) == FALSE

\* find_element raises NoSuchElementException when no element matches.
NotFound(value) == value = "missing"

\* Variant: the checkbox is clicked whatever its value.
IsUnsetAlways(value) == TRUE

IsUnset(value) == value = "0"

NeedsScroll(browserName) == browserName = "firefox"

\* actions.move_to_element(..); actions.pause(1); actions.click(..); perform()
ClickSequence(id, i) ==
    <<Did("move_to_element", id, i), Did("pause", id, i), Did("click", id, i)>>

RecordNavigate ==
    /\ pc = "record"
    /\ currentUrl' = <<"https://", settings["server"], "/", "attendance">>
    /\ portal' = Append(portal, Did("get", currentUrl', 0))
    /\ \E pg \in Pages : page' = pg /\ pageAtLoad' = pg
    /\ pc' = "rec_event"
    /\ UNCHANGED <<exc, console, configVars, rosterVars, driver, sessions,
                   response, loginComplete, attempts, loginResult,
                   selectedEventValue, idx, inspected>>

RecordSelectEvent ==
    /\ pc = "rec_event"
    /\ IF ~page.eventSelect
       THEN /\ exc' = "NoSuchElementException"
            /\ pc' = "crashed"
            /\ UNCHANGED <<selectedEventValue, portal>>
       ELSE /\ portal' = Append(portal,
                           Did("select_event", <<"select2-event-id-container">>, 0))
            /\ selectedEventValue' = page.eventValue
            /\ pc' = "rec_lesson"
            /\ exc' = exc
    /\ UNCHANGED <<console, configVars, rosterVars, loginVars, pageAtLoad,
                   page, idx, inspected>>

RecordLessonPlan ==
    /\ pc = "rec_lesson"
    /\ IF page.lessonPlan = "missing"
       THEN /\ exc' = "NoSuchElementException"
            /\ pc' = "crashed"
            /\ UNCHANGED <<page, portal, idx>>
       ELSE /\ IF page.lessonPlan = "0"
               THEN /\ portal' = Append(portal,
                                   Did("click_lesson_plan", <<"use-lesson-plans">>, 0))
                    /\ page' = [page EXCEPT !.lessonPlan = "1"]
               ELSE UNCHANGED <<page, portal>>
            /\ idx' = 1
            /\ pc' = "rec_loop"
            /\ exc' = exc
    /\ UNCHANGED <<console, configVars, rosterVars, loginVars, pageAtLoad,
                   selectedEventValue, inspected>>

\* One pass of `for attendee in self.attendees`.
RecordAttendee ==
    /\ pc = "rec_loop"
    /\ idx <= Len(attendees)
    /\ LET id == CboxId(attendees[idx], selectedEventValue)
           value == CboxValue(page, id)
           found == Did("find_element", id, idx)
       IN IF NotFound(value)
          THEN /\ portal' = Append(portal, found)
               /\ exc' = "NoSuchElementException"
               /\ pc' = "crashed"
               /\ UNCHANGED <<page, idx, inspected>>
          ELSE /\ inspected' = Append(inspected, [i |-> idx, value |-> value])
               /\ IF IsUnset(value)
                  THEN /\ portal' = portal \o <<found>>
                            \o (IF NeedsScroll(driver)
                                THEN <<Did("scrollIntoView", id, idx)>>
                                ELSE <<>>)
                            \o ClickSequence(id, idx)
                       \* the page may or may not have registered the click
                       /\ \E newValue \in {"0", "1"} :
                            page' = [page EXCEPT !.cbox[id] = newValue]
                  ELSE /\ portal' = Append(portal, found)
                       /\ UNCHANGED page
               /\ idx' = idx + 1
               /\ UNCHANGED <<pc, exc>>
    /\ UNCHANGED <<console, configVars, rosterVars, loginVars, pageAtLoad,
                   selectedEventValue>>

RecordEnd ==
    /\ pc = "rec_loop"
    /\ idx > Len(attendees)
    /\ pc' = "logout"
    /\ UNCHANGED <<exc, console, configVars, rosterVars, loginVars,
                   recordVars, portal>>

----------------------------------------------------------------------------
(* The run *)

\* Config files: DEFAULT holds server, browser, sheetName (and may hold any
\* key); a section per server holds email and initial_wait_secs.
FileValues(k) ==
    CASE k = "server" -> Servers
      [] k = "browser" -> {"Firefox", "Edge"}
      [] k = "sheetName" -> {"Attendance"}
      [] k = "email" -> {"scout@troop.org"}
      [] k = "initial_wait_secs" -> {"30"}

SectionOptions ==
    {o \in [Keys -> {Absent, "scout@troop.org", "30"}] :
        /\ \A k \in DefaultKeys : o[k] = Absent
        /\ o["email"] \in {Absent} \cup FileValues("email")
        /\ o["initial_wait_secs"] \in {Absent} \cup FileValues("initial_wait_secs")}

ConfigFiles ==
    {[defaults |-> d, sections |-> ss,
      opts |-> [s \in Servers |-> IF s \in ss THEN so ELSE NoOptions]] :
        d \in {o \in [Keys -> {Absent} \cup UNION {FileValues(k) : k \in Keys}] :
                 /\ \A k \in Keys : o[k] \in {Absent} \cup FileValues(k)
                 /\ o["initial_wait_secs"] = Absent},
        ss \in SUBSET Servers,
        so \in SectionOptions}

\* The config files the whole-run specification starts from.
CompleteFile(browser) ==
    [defaults |-> [k \in Keys |->
                     CASE k = "server" -> "www.traillifeconnect.com"
                       [] k = "browser" -> browser
                       [] k = "sheetName" -> "Attendance"
                       [] OTHER -> Absent],
     sections |-> {"www.traillifeconnect.com"},
     opts |-> [s \in Servers |->
                 IF s = "www.traillifeconnect.com"
                 THEN [k \in Keys |->
                         CASE k = "email" -> "scout@troop.org"
                           [] k = "initial_wait_secs" -> "30"
                           [] OTHER -> Absent]
                 ELSE NoOptions]]

RunConfigFiles ==
    {CompleteFile("Firefox"), CompleteFile("Chrome"),
     [CompleteFile("Firefox") EXCEPT !.defaults["sheetName"] = Absent],
     [CompleteFile("Edge") EXCEPT !.sections = {},
         !.opts["www.traillifeconnect.com"] = NoOptions]}

InitWith(files) ==
    /\ pc = "readConfig"
    /\ exc = "None"
    /\ console = <<>>
    /\ configFile \in files
    /\ origFile = configFile
    /\ fileWrites = 0
    /\ config = EmptyConfig
    /\ configChanged = FALSE
    /\ itemIdx = 0
    /\ prompted = {}
    /\ typed = [k \in Keys |-> Unset]
    /\ settings = [k \in Keys |-> Unset]
    /\ urls = NoURLs
    /\ workBook = NoWorkBook
    /\ loads = 0
    /\ attendees = <<>>
    /\ count = 0
    /\ driver = "None"
    /\ sessions = 0
    /\ currentUrl = <<>>
    /\ response = NoResponse
    /\ loginComplete = FALSE
    /\ attempts = 0
    /\ loginResult = "None"
    /\ pageAtLoad = NoPage
    /\ page = NoPage
    /\ selectedEventValue = ""
    /\ idx = 0
    /\ inspected = <<>>
    /\ portal = <<>>

Init == InitWith(RunConfigFiles)

Next ==
    \/ ReadConfigStart
    \/ ReadConfigItem
    \/ ReadConfigWrite
    \/ LoadAttendanceData
    \/ MainCheckCount
    \/ LoginStart
    \/ LoginOpen
    \/ LoginWhile
    \/ LoginBody
    \/ MainAfterLogin
    \/ RecordNavigate
    \/ RecordSelectEvent
    \/ RecordLessonPlan
    \/ RecordAttendee
    \/ RecordEnd
    \/ Logout

Spec == Init /\ [][Next]_vars

\* Configuration resolution alone, over every shape of config file.
InitConfig == InitWith(ConfigFiles)

NextConfig ==
    \/ ReadConfigStart
    \/ ReadConfigItem
    \/ ReadConfigWrite

SpecConfig == InitConfig /\ [][NextConfig]_vars

----------------------------------------------------------------------------
(* Properties *)

Positions == 1..Len(portal)

\* How many times interaction `op` was performed for roster position i.
Performed(op, i) ==
    Cardinality({p \in Positions : portal[p].op = op /\ portal[p].i = i})

\* How many complete move-pause-click sequences were performed for position i.
ClickSequences(i) ==
    Cardinality({p \in Positions :
        /\ p + 2 <= Len(portal)
        /\ portal[p].op = "move_to_element" /\ portal[p].i = i
        /\ portal[p + 1].op = "pause" /\ portal[p + 1].i = i
        /\ portal[p + 2].op = "click" /\ portal[p + 2].i = i})

TotalClickSequences ==
    Cardinality({p \in Positions : portal[p].op = "click"})

MarkingOps == {"select_event", "click_lesson_plan", "find_element",
               "scrollIntoView", "move_to_element", "pause", "click"}

AttendanceUrl == <<"https://", settings["server"], "/", "attendance">>
DashboardUrl == <<"https://", settings["server"], "/", "dashboard">>

\* An interaction that belongs to recordAttendance.
IsMarking(e) ==
    \/ e.op \in MarkingOps
    \/ e.op = "get" /\ e.target = AttendanceUrl

MarkingPcs == {"record", "rec_event", "rec_lesson", "rec_loop"}

\* C1: attendance marking happens only after login() returned True; login()
\* returns True exactly when the browser is on the dashboard URL after the
\* wait, False when the wait timed out or the browser is elsewhere, and
\* after False main never reaches attendance marking.
C1_MarkingOnlyAfterLogin ==
    /\ (pc \in MarkingPcs \/ \E p \in Positions : IsMarking(portal[p]))
          => loginResult = "True"
    /\ loginResult = "True" => response.url = DashboardUrl
    /\ loginResult = "False" =>
          /\ response.url # DashboardUrl
          /\ pc \in {"main_if", "done"}
          /\ \A p \in Positions : ~IsMarking(portal[p])
    /\ (loginResult # "None" /\ response.url = DashboardUrl)
          => loginResult = "True"

C1_Witness ==
    /\ pc = "done"
    /\ loginResult = "True"
    /\ \E p \in Positions : portal[p].op = "click"

\* C2: when a roster entry has no checkbox on the page, the lookup of that
\* entry is the last thing recordAttendance does: no later entry is looked
\* up, inspected or clicked, and the error ends the run.
C2_MissingCheckboxHalts ==
    \A p \in Positions :
        (portal[p].op = "find_element"
            /\ CboxValue(pageAtLoad, portal[p].target) = "missing")
        => /\ p = Len(portal)
           /\ pc = "crashed"
           /\ exc = "NoSuchElementException"
           /\ idx = portal[p].i
           /\ \A q \in Positions : portal[q].i <= idx
           /\ \A n \in 1..Len(inspected) : inspected[n].i < idx

C2_Witness ==
    /\ pc = "crashed"
    /\ exc = "NoSuchElementException"
    /\ idx = 1
    /\ Len(attendees) = 2
    /\ CboxValue(page, CboxId(attendees[1], selectedEventValue)) = "missing"
    /\ CboxValue(page, CboxId(attendees[2], selectedEventValue)) = "0"

\* Every inspected entry gets a click sequence iff its value was "0".
ClickIffUnset ==
    \A n \in 1..Len(inspected) :
        LET i == inspected[n].i
            clicks == IF inspected[n].value = "0" THEN 1 ELSE 0
        IN /\ ClickSequences(i) = clicks
           /\ Performed("move_to_element", i) = clicks
           /\ Performed("pause", i) = clicks
           /\ Performed("click", i) = clicks

LoopFinished == pc \in {"logout", "done"}

AllFoundAndInitiallyUnset ==
    \A i \in 1..Len(attendees) :
        CboxValue(pageAtLoad, CboxId(attendees[i], selectedEventValue)) = "0"

NoRepeatedEntry ==
    \A i, j \in 1..Len(attendees) : attendees[i] = attendees[j] => i = j

\* C3 as stated: click sequence iff reported unset, and a roster whose
\* checkboxes are all found and initially unset gets one click sequence per
\* roster entry.
C3_AsStated ==
    /\ ClickIffUnset
    /\ (LoopFinished /\ AllFoundAndInitiallyUnset)
          => TotalClickSequences = Len(attendees)

\* C3: click sequence iff the checkbox is reported unset when inspected; a
\* roster without repeated entries whose checkboxes are all found and
\* initially unset gets exactly one click sequence per roster entry.
C3_ClickIffUnset ==
    /\ ClickIffUnset
    /\ (LoopFinished /\ AllFoundAndInitiallyUnset /\ NoRepeatedEntry)
          => /\ TotalClickSequences = Len(attendees)
             /\ \A i \in 1..Len(attendees) : ClickSequences(i) = 1

C3_Witness ==
    /\ pc = "done"
    /\ attendees = <<"A1", "A2">>
    /\ AllFoundAndInitiallyUnset
    /\ TotalClickSequences = 2

\* C4: when the first loadAttendanceData() returns 0 the run ends with an
\* error report and no browser session: getDriver() never runs.
C4_ZeroCountNoBrowser ==
    /\ (loads >= 1 /\ count = 0 /\ pc # "load1")
          => /\ driver = "None"
             /\ sessions = 0
             /\ pc \in {"check_count", "aborted", "crashed"}
    /\ pc = "aborted" => Len(console) >= 1 /\ console[Len(console)] = "NoData"
    /\ sessions > 0 => count > 0

C4_Witness ==
    /\ pc = "aborted"
    /\ loads = 1
    /\ count = 0
    /\ driver = "None"

\* C5: whenever recordAttendance starts or runs, self.attendees holds at
\* least one entry.
C5_RosterNonEmptyAtMarking ==
    pc \in MarkingPcs => Len(attendees) >= 1

\* A key is in the file when its section, or DEFAULT, holds it.
InFile(f, section, k) ==
    \/ f.defaults[k] # Absent
    \/ section # DEFAULTSECT /\ section \in f.sections
          /\ f.opts[section][k] # Absent

Resolved == {KeyOrder[i] : i \in 1..(itemIdx - 1)}

NewlyResolved ==
    {k \in Resolved : ~InFile(origFile, SectionOf(k, settings), k)}

\* C6: readConfig writes the config file exactly when one of the five keys
\* was missing from it, at most once, and only after all five are resolved.
C6_WriteIffNewlyResolved ==
    /\ fileWrites <= 1
    /\ fileWrites = 1 => pc # "readConfigItem" /\ Resolved = Keys
    /\ fileWrites = 0 => configFile = origFile
    /\ pc \notin {"readConfig", "readConfigItem"}
          => /\ fileWrites = 1 <=> NewlyResolved # {}
             /\ fileWrites = 1 => configFile = config

C6_Witness ==
    /\ pc = "load1"
    /\ fileWrites = 1
    /\ NewlyResolved = {"email"}

\* C7: a key present in the file is not prompted for and keeps its value; a
\* missing key is prompted for and becomes the operator's answer, or the
\* default when the answer is empty; the resolved value is both recorded in
\* the config and exposed as the setting.
C7_PromptOnlyMissing ==
    /\ \A k \in Resolved :
          LET section == SectionOf(k, settings)
          IN IF InFile(origFile, section, k)
             THEN /\ k \notin prompted
                  /\ settings[k] = GetOption(origFile, section, k)
                  /\ GetOption(config, section, k) = settings[k]
             ELSE /\ k \in prompted
                  /\ settings[k] = IF typed[k] = "" THEN DefaultValue(k)
                                   ELSE typed[k]
                  /\ GetOption(config, section, k) = settings[k]
                  /\ settings[k] # ""
    /\ prompted \subseteq Resolved
    /\ pc # "readConfig" =>
          /\ \A k \in Keys : origFile.defaults[k] # Absent
                => config.defaults[k] = origFile.defaults[k]
          /\ \A s \in origFile.sections : \A k \in Keys :
                origFile.opts[s][k] # Absent
                => config.opts[s][k] = origFile.opts[s][k]

C7_Witness ==
    /\ pc = "load1"
    /\ \E a, b, c \in Keys :
          /\ a \in prompted /\ typed[a] = ""
          /\ b \in prompted /\ typed[b] # ""
          /\ c \notin prompted

JustLoaded == pc \in {"check_count", "record"}

\* C8: loading a workbook without the configured sheet leaves the roster
\* empty, prints the sheet-not-found error and returns 0 without raising.
C8_MissingSheetEmptyRoster ==
    (JustLoaded /\ workBook.readable
        /\ settings["sheetName"] \notin workBook.names)
    => /\ attendees = <<>>
       /\ Len(console) >= 1 /\ console[Len(console)] = "SheetNotFound"
       /\ exc = "None"
       /\ pc = "check_count" => count = 0

C8_Witness ==
    /\ pc = "check_count"
    /\ workBook.readable
    /\ workBook.names = {"Scans"}
    /\ settings["sheetName"] = "Attendance"
    /\ attendees = <<>>

\* C9 as stated: when the run aborts for an empty roster nothing has been
\* done: no config-file write, no browser session, no portal interaction.
C9_AsStated ==
    pc = "aborted" =>
        /\ fileWrites = 0
        /\ configFile = origFile
        /\ sessions = 0
        /\ portal = <<>>

\* C9: the run aborts exactly for an empty roster, reports it, and has then
\* opened no browser session and sent nothing to the portal; the config file
\* has been rewritten by then if a key was missing from it.
C9_AbortBeforeBrowser ==
    pc = "aborted" =>
        /\ attendees = <<>>
        /\ count = 0
        /\ Len(console) >= 1 /\ console[Len(console)] = "NoData"
        /\ sessions = 0
        /\ driver = "None"
        /\ portal = <<>>
        /\ currentUrl = <<>>
        /\ fileWrites = 1 <=> prompted # {}

C9_Witness ==
    /\ pc = "aborted"
    /\ attendees = <<>>
    /\ fileWrites = 1

LoginPcs == {"login_open", "login_while", "login_body"}

\* login() has been entered and has ended, by returning or by raising.
LoginEnded ==
    /\ sessions >= 1
    /\ pc \notin LoginPcs

\* C10 as stated: the body of login's while loop runs exactly once on every
\* path through login().
C10_AsStated ==
    /\ attempts <= 1
    /\ LoginEnded => attempts = 1

\* C10: the body of login's while loop runs at most once, and exactly once
\* whenever login() returns; after its one pass the loop test ends the
\* loop, and a failed attempt makes login return False with no retry.
C10_SingleAttempt ==
    /\ attempts <= 1
    /\ loginResult # "None" => attempts = 1
    /\ (pc = "login_while" /\ attempts = 1) => loginComplete
    /\ loginResult = "False" => pc \in {"main_if", "done"}
    /\ Len(console) >= 1 /\ console[Len(console)] \in {"LoginFailed", "DashboardFailed"}
          => loginResult = "False"

C10_Witness ==
    /\ pc = "done"
    /\ loginResult = "False"
    /\ attempts = 1

====
